---------------------------- MODULE Spec2Model ----------------------------
(***************************************************************************)
(* MAP price monitor (src/main.py): configuration flattening, price text   *)
(* extraction, the per-product crawl, the crawl loop with its browser      *)
(* session, webhook delivery and the entry point main().                   *)
(*                                                                         *)
(* Text is a sequence of one-character strings.  Python's None returned by *)
(* extract_price is the integer None (-1): a price parsed from digits is   *)
(* never negative.  The detection timestamp of a Violation (line 224) is   *)
(* not part of the record here: no property below reads it.                *)
(***************************************************************************)
EXTENDS Integers, Sequences, FiniteSets, TLC

VARIABLES
    pc,              \* position of main() / crawl_all_products()
    cfg,             \* the config.json document of this run
    products,        \* self.config.products as enumerated by the loop (line 247)
    i,               \* loop index of line 247, 1-based
    driver,          \* self.driver is set (line 113)
    events,          \* calls made on the browser session, in order
    all_violations,  \* line 242
    results,         \* what crawl_product returned for each product so far
    stdout,          \* what main() printed, in order
    posts,           \* payloads POSTed to the webhook, in order
    file,            \* content of violations.json
    file0,           \* content of violations.json when main() started
    writes,          \* times main() opened violations.json for writing
    log,             \* messages main() and send_violations logged
    exc,             \* the exception that reached main()'s handlers
    exit,            \* how main() ended
    h_pc, h_in, h_out  \* a direct call of one function: position, argument, result

vars == <<pc, cfg, products, i, driver, events, all_violations, results, stdout,
          posts, file, file0, writes, log, exc, exit, h_pc, h_in, h_out>>

mainVars == <<pc, cfg, products, i, driver, events, all_violations, results, stdout,
              posts, file, file0, writes, log, exc, exit>>

harnessVars == <<h_pc, h_in, h_out>>

(***************************************************************************)
(* Bounds of the model.                                                    *)
(***************************************************************************)
MaxLen == 3        \* longest price text given to extract_price directly
MaxItems == 2      \* most result items on a page crawled directly
MaxBrands == 2     \* most brand groups in config.json
MaxProducts == 3   \* most products in config.json
MaxPrice == 3      \* largest listing price shown on a page
MaxMap == 2        \* largest MAP price of a directly crawled product
MaxSend == 2       \* longest list given to send_violations directly

None == -1

(***************************************************************************)
(* extract_price (lines 148-155).                                          *)
(***************************************************************************)
Digits == <<"0", "1", "2", "3", "4", "5", "6", "7", "8", "9">>

IsDigit(c) == \E d \in 1..10 : Digits[d] = c

DigitVal(c) == (CHOOSE d \in 1..10 : Digits[d] = c) - 1

\* re.sub(r'[^\d]', '', price_text), line 152
StripNonDigits(text) == SelectSeq(text, IsDigit)

\* int(price) on a non-empty digit string, line 153
RECURSIVE ParseInt(_, _)
ParseInt(digits, acc) ==
    IF digits = <<>> THEN acc
    ELSE ParseInt(Tail(digits), acc * 10 + DigitVal(Head(digits)))

\* the first contiguous digit run only
RECURSIVE FirstRun(_, _)
FirstRun(text, started) ==
    IF text = <<>> THEN <<>>
    ELSE IF IsDigit(Head(text)) THEN <<Head(text)>> \o FirstRun(Tail(text), TRUE)
    ELSE IF started THEN <<>>
    ELSE FirstRun(Tail(text), FALSE)

extract_price_first_run(price_text) ==
    LET price == FirstRun(price_text, FALSE)
    IN  IF price # <<>> THEN ParseInt(price, 0) ELSE None

extract_price(price_text) ==
    LET price == StripNonDigits(price_text)
    IN  IF price # <<>> THEN ParseInt(price, 0) ELSE None


(***************************************************************************)
(* Config (lines 57-90).  config.json is a record:                         *)
(*   state     "ok", "missing" (no such file) or "malformed" (json.load    *)
(*             fails)                                                      *)
(*   has_products / catalog   the 'products' key and its brand groups      *)
(*   webhook   "url", "empty" or "absent" (no n8n.webhook_url key)         *)
(*   has_delay the crawler.delay_range key                                 *)
(***************************************************************************)
BrandNames == <<"A", "B", "C", "D">>

\* one entry of brand_data['items']; search_keyword <<>> means the key is unset
ItemDoc(g, k) ==
    [name |-> <<g, k>>, map_price |-> 2,
     search_keyword |-> IF k = 1 THEN <<>> ELSE <<g, k, 0>>]

BrandDoc(g, n) ==
    [brand |-> BrandNames[g], items |-> [k \in 1..n |-> ItemDoc(g, k)]]

\* the brand groups of a document, given the number of items of each group
CatalogDoc(counts) == [g \in 1..Len(counts) |-> BrandDoc(g, counts[g])]

RECURSIVE SumSeq(_)
SumSeq(counts) == IF counts = <<>> THEN 0 ELSE Head(counts) + SumSeq(Tail(counts))

Catalogs ==
    {CatalogDoc(c) : c \in {d \in UNION {[1..n -> 0..MaxProducts] : n \in 0..MaxBrands} :
                                SumSeq(d) <= MaxProducts}}

\* Product(...) of lines 71-76
MakeProduct(brand, product) ==
    [brand |-> brand,
     name |-> product.name,
     map_price |-> product.map_price,
     search_keyword |-> IF product.search_keyword = <<>> THEN product.name
                        ELSE product.search_keyword]

\* the inner loop, line 70
RECURSIVE BrandProducts(_, _)
BrandProducts(brand, items) ==
    IF items = <<>> THEN <<>>
    ELSE <<MakeProduct(brand, Head(items))>> \o BrandProducts(brand, Tail(items))

\* the groups appended last to first
RECURSIVE config_products_reversed(_)
config_products_reversed(catalog) ==
    IF catalog = <<>> THEN <<>>
    ELSE config_products_reversed(Tail(catalog))
         \o BrandProducts(Head(catalog).brand, Head(catalog).items)

\* Config.products, lines 64-77
RECURSIVE config_products(_)
config_products(catalog) ==
    IF catalog = <<>> THEN <<>>
    ELSE BrandProducts(Head(catalog).brand, Head(catalog).items)
         \o config_products(Tail(catalog))

ConfigDocs ==
    [state : {"ok", "missing", "malformed"},
     has_products : BOOLEAN,
     catalog : Catalogs,
     webhook : {"url", "empty", "absent"},
     has_delay : BOOLEAN]

(***************************************************************************)
(* crawl_product (lines 157-238).  A result item of the page is a record:  *)
(* has_title/title (a sequence of words), has_mall/mall, has_price/        *)
(* price_text, has_link/href; has_x FALSE means find_element raises        *)
(* NoSuchElementException for that element.                                *)
(***************************************************************************)
UnknownMall == "unknown"     \* line 199

\* product.brand in title, line 191
BrandInTitle(brand, title) == \E k \in 1..Len(title) : title[k] = brand

MakeViolation(product, mall_name, price, product_url) ==
    [brand |-> product.brand, name |-> product.name, map |-> product.map_price,
     mall_name |-> mall_name, price |-> price, url |-> product_url]

\* "if price and price < product.map_price", line 216: None and 0 are falsy
is_violation(price, map_price) ==
    price # None /\ price # 0 /\ price < map_price

\* the body of the loop for one item, lines 186-231: <<>> or one Violation
parse_item(product, item) ==
    IF ~item.has_title THEN <<>>                           \* 188 raises, 229
    ELSE IF ~BrandInTitle(product.brand, item.title) THEN <<>>   \* 191-192
    ELSE IF ~item.has_price THEN <<>>                      \* 205-206
    ELSE LET mall_name == IF item.has_mall THEN item.mall ELSE UnknownMall
             price == extract_price(item.price_text)
             product_url == IF item.has_link THEN item.href ELSE ""
         IN  IF is_violation(price, product.map_price)
             THEN <<MakeViolation(product, mall_name, price, product_url)>>
             ELSE <<>>

\* a loop that stops at the first item that yields nothing
RECURSIVE crawl_items_break(_, _, _)
crawl_items_break(product, items, violations) ==
    IF items = <<>> THEN violations
    ELSE IF parse_item(product, Head(items)) = <<>> THEN violations
    ELSE crawl_items_break(product, Tail(items),
                           violations \o parse_item(product, Head(items)))

\* for item in items, lines 185-231
RECURSIVE crawl_items(_, _, _)
crawl_items(product, items, violations) ==
    IF items = <<>> THEN violations
    ELSE crawl_items(product, Tail(items),
                     violations \o parse_item(product, Head(items)))

\* What the browser shows for one search: page.load is "captcha" (check_captcha
\* returns True), "timeout" (wait.until raises TimeoutException) or "loaded";
\* page.items are the result items.  delay_ok is whether random_delay (line 167)
\* can read crawler.delay_range.  The result: the URL passed to driver.get, how
\* the crawl ended and the list returned at line 238.
crawl_product(product, page, delay_ok) ==
    LET nav == product.search_keyword
    IN  IF ~delay_ok
        THEN [nav |-> nav, outcome |-> "error", violations |-> <<>>]      \* 167, 235
        ELSE IF page.load = "captcha"
        THEN [nav |-> nav, outcome |-> "captcha", violations |-> <<>>]    \* 170-171, 235
        ELSE IF page.load = "timeout"
        THEN [nav |-> nav, outcome |-> "timeout", violations |-> <<>>]    \* 175, 233
        ELSE [nav |-> nav, outcome |-> "ok",
              violations |-> crawl_items(product, page.items, <<>>)]

(***************************************************************************)
(* N8NIntegration.send_violations (lines 269-295).  A response is          *)
(* [err, status]: err means requests.post raised.                          *)
(***************************************************************************)
\* asdict over the list, lines 277 and 315
Serialize(violations) == [k \in 1..Len(violations) |-> violations[k]]

\* treats every response as delivered
send_violations_any_status(violations, response) ==
    IF violations = <<>>
    THEN [posts |-> <<>>, ret |-> TRUE, log |-> "no_violations"]
    ELSE [posts |-> <<Serialize(violations)>>, ret |-> TRUE, log |-> "sent"]

send_violations(violations, response) ==
    IF violations = <<>>
    THEN [posts |-> <<>>, ret |-> TRUE, log |-> "no_violations"]         \* 271-273
    ELSE IF response.err
    THEN [posts |-> <<Serialize(violations)>>, ret |-> FALSE, log |-> "send_error"]
    ELSE IF response.status = 200
    THEN [posts |-> <<Serialize(violations)>>, ret |-> TRUE, log |-> "sent"]
    ELSE [posts |-> <<Serialize(violations)>>, ret |-> FALSE, log |-> "send_failed"]


(***************************************************************************)
(* crawl_all_products (lines 240-260) and main (lines 298-338).            *)
(***************************************************************************)
NoExc == [type |-> "none", origin |-> "none"]

Event(op, url) == [op |-> op, url |-> url]

NoFile == [exists |-> FALSE, json |-> <<>>]

\* a violations.json left by an earlier run
OldFile ==
    [exists |-> TRUE,
     json |-> <<[brand |-> "A", name |-> <<1, 1>>, map |-> 2,
                 mall_name |-> "oldmall", price |-> 1, url |-> "http"]>>]

Title(brand) == <<brand, "kim">>

ListedItem(title, price_text) ==
    [has_title |-> TRUE, title |-> title, has_mall |-> TRUE, mall |-> "mall",
     has_price |-> TRUE, price_text |-> price_text, has_link |-> TRUE, href |-> "http"]

\* the result pages a search can show during a whole run
MainPages ==
    {[load |-> "captcha", items |-> <<>>], [load |-> "timeout", items |-> <<>>]}
    \cup {[load |-> "loaded", items |-> it] :
            it \in {<<>>,
                    <<ListedItem(Title("A"), <<"1", "w">>)>>,
                    <<ListedItem(Title("B"), <<"2", "w">>),
                      ListedItem(Title("B"), <<"1", "w">>)>>,
                    <<ListedItem(Title("A"), <<"0", "w">>),
                      ListedItem(Title("B"), <<"3", "w">>)>>}}

Responses ==
    {[err |-> TRUE, status |-> 0]}
    \cup {[err |-> FALSE, status |-> st] : st \in {200, 201, 404, 500}}

\* the except clauses of main, lines 334-338
main_except(e) ==
    IF e.type = "FileNotFoundError"
    THEN [log |-> "config_not_found", exit |-> "returned"]
    ELSE [log |-> "run_error", exit |-> "raised"]

\* an exception reaches the handlers of main
Raise(e) ==
    /\ exc' = e
    /\ log' = log \cup {main_except(e).log}
    /\ exit' = main_except(e).exit
    /\ pc' = "exited"

\* all_violations.extend(violations), line 251
extend(list, more) == list \o more

\* the loop left after a product that was not crawled to the end
after_crawl_break(idx, n, r) ==
    IF r.outcome # "ok" THEN "finally"
    ELSE IF idx < n THEN "delay" ELSE "finally"

\* lines 253-255 and the end of the loop: where control goes after product idx of n
after_crawl(idx, n, r) == IF idx < n THEN "delay" ELSE "finally"

\* the session closed only when the loop ended without an exception
close_after_loop(pending, drv, evs) ==
    IF drv /\ pending = NoExc THEN Append(evs, Event("quit", <<>>)) ELSE evs

\* finally: self.close_driver(), lines 257-258 and 116-119
crawl_finally(pending, drv, evs) ==
    IF drv THEN Append(evs, Event("quit", <<>>)) ELSE evs

\* the file written on both branches
has_violations_always(violations) == TRUE

\* "if violations:", line 310
has_violations(violations) == violations # <<>>

Init ==
    /\ pc = "main"
    /\ cfg \in ConfigDocs
    /\ file \in {NoFile, OldFile}
    /\ file0 = file
    /\ products = <<>>
    /\ i = 0
    /\ driver = FALSE
    /\ events = <<>>
    /\ all_violations = <<>>
    /\ results = <<>>
    /\ stdout = <<>>
    /\ posts = <<>>
    /\ writes = 0
    /\ log = {}
    /\ exc = NoExc
    /\ exit = "running"
    /\ h_pc = "idle" /\ h_in = <<>> /\ h_out = <<>>

\* Config('config.json'), lines 302-303 and 60-62
LoadConfig ==
    /\ pc = "main"
    /\ IF cfg.state = "missing"
       THEN Raise([type |-> "FileNotFoundError", origin |-> "config"])
       ELSE IF cfg.state = "malformed"
       THEN Raise([type |-> "JSONDecodeError", origin |-> "config"])
       ELSE /\ pc' = "setup"
            /\ log' = log \cup {"start"}
            /\ UNCHANGED <<exc, exit>>
    /\ UNCHANGED <<cfg, products, i, driver, events, all_violations, results,
                   stdout, posts, file, file0, writes, harnessVars>>

\* self.setup_driver(), lines 245 and 101-114: webdriver.Chrome may raise
\* (no session), execute_script may raise (self.driver already set)
SetupDriver ==
    /\ pc = "setup"
    /\ \E outcome \in {"ok", "chrome_fail", "script_fail"} :
         /\ driver' = (outcome # "chrome_fail")
         /\ events' = IF outcome # "chrome_fail"
                      THEN Append(events, Event("Chrome", <<>>)) ELSE events
         /\ IF outcome = "ok"
            THEN pc' = "enumerate" /\ exc' = exc
            ELSE pc' = "finally"
                 /\ exc' = [type |-> "WebDriverException", origin |-> "setup"]
    /\ UNCHANGED <<cfg, products, i, all_violations, results, stdout, posts,
                   file, file0, writes, log, exit, harnessVars>>

\* enumerate(self.config.products), line 247
Enumerate ==
    /\ pc = "enumerate"
    /\ IF cfg.has_products
       THEN /\ products' = config_products(cfg.catalog)
            /\ i' = 1
            /\ pc' = IF config_products(cfg.catalog) = <<>> THEN "finally" ELSE "crawl"
            /\ exc' = exc
       ELSE /\ exc' = [type |-> "KeyError", origin |-> "products"]
            /\ pc' = "finally"
            /\ UNCHANGED <<products, i>>
    /\ UNCHANGED <<cfg, driver, events, all_violations, results, stdout, posts,
                   file, file0, writes, log, exit, harnessVars>>

\* one iteration up to line 254: crawl_product and extend
CrawlProduct ==
    /\ pc = "crawl"
    /\ \E page \in MainPages :
         LET r == crawl_product(products[i], page, cfg.has_delay)
         IN  /\ events' = Append(events, Event("get", r.nav))
             /\ results' = Append(results, r)
             /\ all_violations' = extend(all_violations, r.violations)
             /\ pc' = after_crawl(i, Len(products), r)
    /\ UNCHANGED <<cfg, products, i, driver, stdout, posts, file, file0, writes,
                   log, exc, exit, harnessVars>>

\* self.random_delay() between two products, line 255
LoopDelay ==
    /\ pc = "delay"
    /\ IF cfg.has_delay
       THEN pc' = "crawl" /\ i' = i + 1 /\ exc' = exc
       ELSE pc' = "finally" /\ i' = i
            /\ exc' = [type |-> "KeyError", origin |-> "delay"]
    /\ UNCHANGED <<cfg, products, driver, events, all_violations, results, stdout,
                   posts, file, file0, writes, log, exit, harnessVars>>

\* the finally clause, then return all_violations or the pending exception
Finally ==
    /\ pc = "finally"
    /\ events' = crawl_finally(exc, driver, events)
    /\ IF exc = NoExc
       THEN pc' = "report" /\ UNCHANGED <<exc, log, exit>>
       ELSE Raise(exc)
    /\ UNCHANGED <<cfg, products, i, driver, all_violations, results, stdout,
                   posts, file, file0, writes, harnessVars>>

\* lines 310-322 and 330-332
Report ==
    /\ pc = "report"
    /\ IF has_violations(all_violations)
       THEN /\ stdout' = Append(stdout, Serialize(all_violations))
            /\ IF cfg.webhook = "absent"
               THEN /\ exc' = [type |-> "KeyError", origin |-> "webhook"]
                    /\ log' = log \cup {"found", main_except(exc').log}
                    /\ exit' = main_except(exc').exit
                    /\ pc' = "exited"
               ELSE /\ log' = log \cup {"found"}
                    /\ pc' = IF cfg.webhook = "url" THEN "deliver" ELSE "persist"
                    /\ UNCHANGED <<exc, exit>>
       ELSE /\ stdout' = Append(stdout, <<>>)
            /\ log' = log \cup {"no_violations"}
            /\ exit' = "returned"
            /\ pc' = "exited"
            /\ exc' = exc
    /\ UNCHANGED <<cfg, products, i, driver, events, all_violations, results,
                   posts, file, file0, writes, harnessVars>>

\* n8n.send_violations(violations), lines 323-324
Deliver ==
    /\ pc = "deliver"
    /\ \E response \in Responses :
         LET r == send_violations(all_violations, response)
         IN  /\ posts' = posts \o r.posts
             /\ log' = log \cup {r.log}
    /\ pc' = "persist"
    /\ UNCHANGED <<cfg, products, i, driver, events, all_violations, results,
                   stdout, file, file0, writes, exc, exit, harnessVars>>

\* open('violations.json', 'w') and write, lines 327-328
Persist ==
    /\ pc = "persist"
    /\ \E fs \in {"ok", "FileNotFoundError", "PermissionError"} :
         IF fs = "ok"
         THEN /\ file' = [exists |-> TRUE, json |-> Serialize(all_violations)]
              /\ writes' = writes + 1
              /\ exit' = "returned"
              /\ pc' = "exited"
              /\ UNCHANGED <<exc, log>>
         ELSE /\ Raise([type |-> fs, origin |-> "persist"])
              /\ UNCHANGED <<file, writes>>
    /\ UNCHANGED <<cfg, products, i, driver, events, all_violations, results,
                   stdout, posts, file0, harnessVars>>

Next ==
    \/ LoadConfig
    \/ SetupDriver
    \/ Enumerate
    \/ CrawlProduct
    \/ LoopDelay
    \/ Finally
    \/ Report
    \/ Deliver
    \/ Persist

Spec == Init /\ [][Next]_vars


(***************************************************************************)
(* Direct calls of extract_price, crawl_product and send_violations on     *)
(* bounded inputs; main() is not running.                                  *)
(***************************************************************************)
MainIdle ==
    /\ pc = "idle"
    /\ cfg = [state |-> "missing", has_products |-> FALSE, catalog |-> <<>>,
              webhook |-> "absent", has_delay |-> FALSE]
    /\ file = NoFile /\ file0 = NoFile
    /\ products = <<>> /\ i = 0 /\ driver = FALSE /\ events = <<>>
    /\ all_violations = <<>> /\ results = <<>> /\ stdout = <<>> /\ posts = <<>>
    /\ writes = 0 /\ log = {} /\ exc = NoExc /\ exit = "running"

SeqsUpTo(S, n) == UNION {[1..m -> S] : m \in 0..n}

PriceChars == {"0", "1", "9", ",", "w", " "}

InitPrice ==
    /\ MainIdle
    /\ h_pc = "call"
    /\ h_in \in SeqsUpTo(PriceChars, MaxLen)
    /\ h_out = None

ExtractPrice ==
    /\ h_pc = "call"
    /\ h_out' = extract_price(h_in)
    /\ h_pc' = "done"
    /\ UNCHANGED <<h_in, mainVars>>

NextPrice == ExtractPrice

SpecPrice == InitPrice /\ [][NextPrice]_vars

\* the price text of a listing at price p
PriceText(p) == <<Digits[p + 1], "w">>

PageItem(has_title, title, has_price, price_text, has_mall, has_link) ==
    [has_title |-> has_title, title |-> title,
     has_mall |-> has_mall, mall |-> IF has_mall THEN "mall" ELSE "",
     has_price |-> has_price, price_text |-> price_text,
     has_link |-> has_link, href |-> IF has_link THEN "http" ELSE ""]

\* the result items a page can hold: no title element, a title of another brand,
\* no price element, a price text without digits, and listings of brand "A" at
\* every price with or without their seller and link elements
PageItems ==
    {PageItem(FALSE, <<>>, TRUE, PriceText(1), TRUE, TRUE),
     PageItem(TRUE, Title("B"), TRUE, PriceText(1), TRUE, TRUE),
     PageItem(TRUE, Title("A"), FALSE, <<>>, TRUE, TRUE),
     PageItem(TRUE, Title("A"), TRUE, <<"w", "w">>, TRUE, TRUE)}
    \cup {PageItem(TRUE, Title("A"), TRUE, PriceText(p), m, l) :
            p \in 0..MaxPrice, m \in BOOLEAN, l \in BOOLEAN}

CrawlPages ==
    {[load |-> "captcha", items |-> <<>>], [load |-> "timeout", items |-> <<>>]}
    \cup {[load |-> "loaded", items |-> it] : it \in SeqsUpTo(PageItems, MaxItems)}

CrawlProducts ==
    {[brand |-> "A", name |-> <<1, 1>>, map_price |-> mp, search_keyword |-> <<1, 1>>] :
        mp \in 1..MaxMap}

InitCrawl ==
    /\ MainIdle
    /\ h_pc = "call"
    /\ h_in \in [product : CrawlProducts, page : CrawlPages, delay_ok : BOOLEAN]
    /\ h_out = <<>>

CallCrawlProduct ==
    /\ h_pc = "call"
    /\ h_out' = crawl_product(h_in.product, h_in.page, h_in.delay_ok)
    /\ h_pc' = "done"
    /\ UNCHANGED <<h_in, mainVars>>

NextCrawl == CallCrawlProduct

SpecCrawl == InitCrawl /\ [][NextCrawl]_vars

SendViolations ==
    {[brand |-> "A", name |-> <<1, 1>>, map |-> 2, mall_name |-> m, price |-> 1,
      url |-> "http"] : m \in {"mall", "shop", UnknownMall}}

InitSend ==
    /\ MainIdle
    /\ h_pc = "call"
    /\ h_in \in [violations : SeqsUpTo(SendViolations, MaxSend), response : Responses]
    /\ h_out = <<>>

CallSendViolations ==
    /\ h_pc = "call"
    /\ h_out' = send_violations(h_in.violations, h_in.response)
    /\ h_pc' = "done"
    /\ UNCHANGED <<h_in, mainVars>>

NextSend == CallSendViolations

SpecSend == InitSend /\ [][NextSend]_vars


(***************************************************************************)
(* Properties.                                                             *)
(***************************************************************************)
RECURSIVE Pow10(_)
Pow10(n) == IF n = 0 THEN 1 ELSE 10 * Pow10(n - 1)

RECURSIVE SumOver(_, _)
SumOver(S, f) ==
    IF S = {} THEN 0
    ELSE LET x == CHOOSE y \in S : TRUE IN f[x] + SumOver(S \ {x}, f)

DigitPositions(text) == {k \in 1..Len(text) : IsDigit(text[k])}

\* the number written by the digit characters of text, read in their order
DigitsValue(text) ==
    LET P == DigitPositions(text)
    IN  SumOver(P, [k \in P |->
                      DigitVal(text[k]) * Pow10(Cardinality({j \in P : j > k}))])

RECURSIVE ConcatAll(_)
ConcatAll(lists) ==
    IF lists = <<>> THEN <<>> ELSE Head(lists) \o ConcatAll(Tail(lists))

Count(evs, op) == Cardinality({k \in 1..Len(evs) : evs[k].op = op})

\* crawl_all_products has returned its list to main
CrawlReturned ==
    \/ pc \in {"report", "deliver", "persist"}
    \/ pc = "exited" /\ exc.origin \in {"none", "webhook", "persist"}
                     /\ cfg.state = "ok"

\* crawl_all_products has ended, by return or by an exception
CrawlEnded ==
    \/ pc \in {"report", "deliver", "persist"}
    \/ pc = "exited" /\ cfg.state = "ok"

------------------------------------------------------------------------------
\* C1: after crawl_product on a loaded page, the prices of the violations it
\* returns are, in page order, exactly the prices of the brand-matching
\* listings whose price text parses to an integer strictly below map_price;
\* every such price, 0 included, yields a violation and a price equal to
\* map_price yields none.
C1_ViolationIffBelowMap ==
    (h_pc = "done" /\ h_out.outcome = "ok") =>
        LET product == h_in.product
            listed(item) ==
                /\ item.has_title
                /\ BrandInTitle(product.brand, item.title)
                /\ item.has_price
                /\ DigitPositions(item.price_text) # {}
                /\ DigitsValue(item.price_text) < product.map_price
            below == SelectSeq(h_in.page.items, listed)
        IN  /\ Len(h_out.violations) = Len(below)
            /\ \A k \in 1..Len(below) :
                  h_out.violations[k].price = DigitsValue(below[k].price_text)

------------------------------------------------------------------------------
\* C2: the browser session is closed at most once, nothing is asked of it after
\* the close, and once crawl_all_products has returned or raised a session that
\* was acquired has been closed exactly once.
C2_SessionClosedOnce ==
    /\ Count(events, "quit") <= 1
    /\ driver <=> Count(events, "Chrome") = 1
    /\ \A k \in 1..Len(events) : events[k].op = "quit" => k = Len(events)
    /\ Count(events, "quit") = 1 => driver
    /\ (CrawlEnded /\ driver) => Count(events, "quit") = 1

\* a run that raised between two products after the session was opened
C2_Witness ==
    /\ pc = "exited"
    /\ exc.origin = "delay"
    /\ Count(events, "get") = 1
    /\ events[Len(events)].op = "quit"

------------------------------------------------------------------------------
Aborted(r) == r.outcome \in {"captcha", "timeout"}

C3_State ==
    /\ \A k \in 1..Len(results) : Aborted(results[k]) => results[k].violations = <<>>
    /\ (\E k \in 1..Len(results) : Aborted(results[k])) =>
          /\ exc.origin \notin {"setup", "products", "delay"}
          /\ pc = "delay" => cfg.has_delay
          /\ CrawlEnded => Len(results) = Len(products)

C3_Step ==
    (Len(results') = Len(results) + 1 /\ Aborted(results'[Len(results')])) =>
        /\ all_violations' = all_violations
        /\ exc' = NoExc
        /\ pc' = IF i < Len(products) THEN "delay" ELSE "finally"

\* C3: a product aborted by a captcha or a results timeout contributes an empty
\* list, the step leaves all_violations as it was and raises nothing, no
\* exception leaves crawl_all_products in such a run, and the loop goes on to
\* every later product.
C3_AbortSkipsOnlyThatProduct == []C3_State /\ [][C3_Step]_vars

\* violations before and after a product stopped by a captcha, all reported
C3_Witness ==
    /\ pc = "exited" /\ exit = "returned"
    /\ Len(results) = 3
    /\ results[1].violations # <<>>
    /\ results[2].outcome = "captcha"
    /\ results[3].violations # <<>>
    /\ Len(all_violations) = 2

------------------------------------------------------------------------------
\* C4: when the crawl returned a non-empty list and main() has ended, the
\* serialized list was printed and violations.json holds it, unless writing
\* the file itself failed.
C4_OutputsAlwaysWritten ==
    (pc = "exited" /\ CrawlReturned /\ all_violations # <<>>
     /\ exc.origin # "persist") =>
        /\ stdout = <<Serialize(all_violations)>>
        /\ file = [exists |-> TRUE, json |-> Serialize(all_violations)]
        /\ writes = 1

------------------------------------------------------------------------------
\* C5: when main() has ended, a missing config.json was reported and main
\* returned with no browser session and no product crawled; any other failure
\* that reached main was logged as a run error and re-raised.
C5_OnlyMissingConfigIsSwallowed ==
    pc = "exited" =>
        /\ cfg.state = "missing" =>
              /\ exit = "returned" /\ "config_not_found" \in log
              /\ events = <<>> /\ results = <<>> /\ ~driver
        /\ (cfg.state # "missing" /\ exc # NoExc) =>
              /\ exit = "raised" /\ "run_error" \in log

------------------------------------------------------------------------------
\* C6: send_violations on an empty list POSTs nothing and returns True; on a
\* non-empty list it POSTs the serialized list once and returns True exactly
\* when a response arrived with status 200.
C6_SendViolations ==
    h_pc = "done" =>
        IF h_in.violations = <<>>
        THEN h_out.posts = <<>> /\ h_out.ret = TRUE
        ELSE /\ h_out.posts = <<Serialize(h_in.violations)>>
             /\ h_out.ret = (~h_in.response.err /\ h_in.response.status = 200)

\* a non-empty list answered with 404
C6_Witness ==
    /\ h_pc = "done"
    /\ Len(h_in.violations) = 2
    /\ ~h_in.response.err /\ h_in.response.status = 404
    /\ h_out.ret = FALSE
    /\ Len(h_out.posts) = 1

------------------------------------------------------------------------------
------------------------------------------------------------------------------
Skipped(product, item) ==
    \/ ~item.has_title
    \/ ~BrandInTitle(product.brand, item.title)
    \/ ~item.has_price
    \/ DigitPositions(item.price_text) = {}

\* what one item contributes on its own
ItemYield(product, item) ==
    IF Skipped(product, item) THEN <<>>
    ELSE IF is_violation(DigitsValue(item.price_text), product.map_price)
    THEN <<[brand |-> product.brand, name |-> product.name, map |-> product.map_price,
            mall_name |-> IF item.has_mall THEN item.mall ELSE UnknownMall,
            price |-> DigitsValue(item.price_text),
            url |-> IF item.has_link THEN item.href ELSE ""]>>
    ELSE <<>>

\* C8: the list crawl_product returns for a loaded page is the concatenation,
\* in page order, of what each item yields on its own: nothing for an item
\* without title element, of another brand, without price element or without
\* digits in its price text; otherwise its violation, with the default seller
\* name for a missing seller element and an empty URL for a missing link.
C8_ItemsIndependent ==
    (h_pc = "done" /\ h_out.outcome = "ok") =>
        h_out.violations =
            ConcatAll([k \in 1..Len(h_in.page.items) |->
                          ItemYield(h_in.product, h_in.page.items[k])])

\* an item without title element followed by a listing without seller element
C8_Witness ==
    /\ h_pc = "done"
    /\ Len(h_in.page.items) = 2
    /\ ~h_in.page.items[1].has_title
    /\ ~h_in.page.items[2].has_mall
    /\ Len(h_out.violations) = 1
    /\ h_out.violations[1].mall_name = UnknownMall

------------------------------------------------------------------------------
\* the places <<g, j>> of the items of a catalog
Places(catalog) ==
    UNION {{<<g, j>> : j \in 1..Len(catalog[g].items)} : g \in 1..Len(catalog)}

\* the position of a place in brand-then-item order
Rank(catalog, pl) ==
    Cardinality({q \in Places(catalog) :
                    q[1] < pl[1] \/ (q[1] = pl[1] /\ q[2] <= pl[2])})

\* the search keyword of the item at a place
KeywordAt(catalog, pl) ==
    LET it == catalog[pl[1]].items[pl[2]]
    IN  IF it.search_keyword = <<>> THEN it.name ELSE it.search_keyword

\* the navigations so far follow the catalog: the k-th is for the k-th item
NavFollowsCatalog ==
    /\ Count(events, "get") <= Cardinality(Places(cfg.catalog))
    /\ \A pl \in Places(cfg.catalog) :
          LET k == Rank(cfg.catalog, pl)
              gets == SelectSeq(events, LAMBDA e : e.op = "get")
          IN  k <= Len(gets) => gets[k].url = KeywordAt(cfg.catalog, pl)

\* C9 as stated: once setup_driver has opened the session and
\* crawl_all_products has ended, every product was navigated to once, in
\* catalog order, and the list is the concatenation of the per-product lists.
C9_EveryProductOnce ==
    (CrawlEnded /\ driver /\ exc.origin # "setup" /\ cfg.has_products) =>
        /\ NavFollowsCatalog
        /\ Count(events, "get") = Cardinality(Places(cfg.catalog))
        /\ all_violations = ConcatAll([k \in 1..Len(results) |-> results[k].violations])

\* C9 amended: the navigations are always a prefix of the catalog in
\* brand-then-item order, one per product, all_violations is always the
\* concatenation of the per-product lists, and when crawl_all_products returns
\* its list every product has been navigated to.
C9_EveryProductOnceOnReturn ==
    /\ pc \notin {"main", "setup", "enumerate"} /\ cfg.has_products /\ cfg.state = "ok"
          => NavFollowsCatalog
    /\ Count(events, "get") = Len(results)
    /\ all_violations = ConcatAll([k \in 1..Len(results) |-> results[k].violations])
    /\ CrawlReturned => Count(events, "get") = Cardinality(Places(cfg.catalog))

\* two brands, three products, the second one aborted
C9_Witness ==
    /\ pc = "exited" /\ exit = "returned"
    /\ Len(cfg.catalog) = 2
    /\ Len(cfg.catalog[1].items) = 2
    /\ Len(results) = 3
    /\ results[1].violations # <<>>
    /\ results[2].outcome = "timeout"
    /\ results[3].violations # <<>>

------------------------------------------------------------------------------
\* C10: when the crawl returned an empty list and main() has ended, main
\* printed [] once, POSTed nothing and did not open violations.json: the file
\* is what it was when main started.
C10_EmptyRunLeavesFile ==
    (pc = "exited" /\ CrawlReturned /\ all_violations = <<>>) =>
        /\ stdout = <<Serialize(<<>>)>>
        /\ posts = <<>>
        /\ writes = 0
        /\ file = file0
        /\ exit = "returned"

\* an empty run next to the file an earlier run left
C10_Witness ==
    /\ pc = "exited"
    /\ Len(results) = 2
    /\ all_violations = <<>>
    /\ file = OldFile

=============================================================================
